---- MODULE Spec2Model ----
(***************************************************************************)
(* A model of textattack/search_methods/genetic_algorithm.py               *)
(* (GeneticAlgorithm._perturb, ._crossover and ._perform_search).          *)
(*                                                                         *)
(* A text is a vector of words over the positions 0..NumWords-1 plus the   *)
(* one attack attribute the control flow reads, "last_transformation".     *)
(* The other attack attributes (modified_indices, newly_modified_indices)  *)
(* are written by _crossover but never read by the three methods, so they  *)
(* are not part of the state.  Scores are small naturals.                  *)
(*                                                                         *)
(* The adapters (get_transformations, get_goal_results,                    *)
(* _check_constraints) are the environment: each call returns any list of  *)
(* candidates, any scores with any search_over flag, any verdict.  A       *)
(* result's status is SUCCEEDED exactly when its score is MaxScore.  The   *)
(* three abstract hooks of the class (_initialize_population,              *)
(* _crossover_operation, _modify_population_member) are modelled from      *)
(* their contracts.                                                        *)
(*                                                                         *)
(* pc is the position in the code; search, cross and pert are the frames   *)
(* (arguments and locals) of _perform_search, _crossover and _perturb,     *)
(* None while the method is not running.  Spec runs _perform_search        *)
(* (SpecTerminating: with every call returning), SpecCrossover and         *)
(* SpecPerturb call one operator on its own.                               *)
(*                                                                         *)
(* SpecInstruction is a model of                                           *)
(* constraints/pre_transformation/instruction_modification.py              *)
(* (InstructionModification._get_modifiable_indices); instr is the frame   *)
(* of that call, None in the other specifications.                         *)
(***************************************************************************)
EXTENDS Integers, Sequences, FiniteSets, TLC

\* ---------------------------------------------------------------- bounds
NumWords == 2
MaxWord == 2
SearchMaxWord == 1
MaxScore == 3
MaxBudget == 1
MaxCands == 2
MaxPopSize == 3
MaxIters == 2
MaxRetries == 1
MaxCalls == 2
MaxChildren == 2
InitialScore == 1
InvTemp == 1
MaxTokens == 3

Positions == 0 .. (NumWords - 1)
Words == 0 .. MaxWord
Scores == 0 .. MaxScore

\* ------------------------------------------------------------ data types
SUCCEEDED == "SUCCEEDED"
SEARCHING == "SEARCHING"

\* The goal function completes when the score reaches its top value (a
\* threshold goal such as a target BLEU or overlap score).
GoalStatus(score) == IF score >= MaxScore THEN SUCCEEDED ELSE SEARCHING

MakeResult(score) == [score |-> score, goal_status |-> GoalStatus(score)]

GoalFunctionResult == {MakeResult(s) : s \in Scores}

AttackedText == [words : [Positions -> Words], last_transformation : BOOLEAN]

BudgetVectors == [Positions -> 0 .. MaxBudget]

PopulationMember ==
    [attacked_text : AttackedText,
     result : GoalFunctionResult,
     num_replacements_per_word : BudgetVectors]

OriginalText ==
    [words |-> [j \in Positions |-> 0], last_transformation |-> FALSE]

initial_result == MakeResult(InitialScore)

\* AttackedText.text: the string, without the attack attributes.
Text(t) == t.words

\* The absent optional argument `index=None` is the empty sequence, a given
\* index k is <<k>>.
None == << >>

VARIABLES vocab, cfg, pc, search_over, search, cross, pert, hist, instr

vars == <<vocab, cfg, pc, search_over, search, cross, pert, hist, instr>>

\* ------------------------------------------------------------- helpers
RECURSIVE SumOver(_, _)
SumOver(v, S) ==
    IF S = {} THEN 0
    ELSE LET j == CHOOSE x \in S : TRUE IN v[j] + SumOver(v, S \ {j})

\* np.sum(num_replacements_per_word)
NpSum(v) == SumOver(v, DOMAIN v)

\* np.count_nonzero(num_replacements_per_word)
CountNonzero(v) == Cardinality({j \in DOMAIN v : v[j] # 0})

RECURSIVE SeqMax(_)
SeqMax(s) ==
    IF Len(s) = 1 THEN s[1]
    ELSE LET m == SeqMax(Tail(s)) IN IF s[1] >= m THEN s[1] ELSE m

\* torch argmax: the first index that holds the maximum.
ArgMax(s) == CHOOSE k \in 1 .. Len(s) :
    /\ s[k] = SeqMax(s)
    /\ \A l \in 1 .. (k - 1) : s[l] # SeqMax(s)

\* Injective sequences over S of length at most n.
ListsOver(S, n) ==
    UNION {{s \in [1 .. k -> S] : \A a, b \in 1 .. k : a # b => s[a] # s[b]} :
           k \in 0 .. n}

\* ------------------------------------------------------ history variable
\* hist records what the calls did; no action reads it to decide anything.
\*   over_seen      an oracle call has returned search_over = True
\*   late_call      an adapter was called after over_seen
\*   p_*            the current _perturb call: the number of oracle and
\*                  transformation calls and of random draws, whether
\*                  get_transformations was asked about another index than
\*                  the one the caller gave
\*   batch_max      the maximum score of the batch a commit was taken from
\*   p_exhausted    positions whose working budget this call has zeroed
\*   p_resampled    a random draw of this call returned one of p_exhausted
\*   p_drew_zero    a random draw of this call returned a position whose
\*                  working budget was zero
\*   exhausted      positions zeroed by this call or an earlier one on the
\*                  member's predecessors
\*   resampled      a random draw has returned a position in exhausted
\*   calls          _perturb calls made on this member and its successors
\*   x_*            the current _crossover call: recombinations, oracle calls,
\*                  constraint checks, whether a check returned True, whether
\*                  every recombined child differed from both parents
NoHist ==
    [over_seen |-> FALSE, late_call |-> FALSE,
     p_oracle |-> 0, p_trans |-> 0, p_draws |-> 0,
     p_strayed |-> FALSE, p_exhausted |-> {}, p_resampled |-> FALSE,
     p_drew_zero |-> FALSE,
     batch_max |-> {}, exhausted |-> {}, resampled |-> FALSE,
     calls |-> 0,
     x_recomb |-> 0, x_oracle |-> 0, x_checks |-> 0, x_check_passed |-> FALSE,
     x_all_differ |-> TRUE,
     init_ok |-> TRUE, exit |-> "none"]

\* An adapter is being called in a state whose history is h.
AdapterCalled(h) == [h EXCEPT !.late_call = @ \/ h.over_seen]

\* get_goal_results has returned the flag so.
OracleReturned(h, so) == [h EXCEPT !.over_seen = @ \/ so]

\* ------------------------------------------------------------- adapters
\* get_transformations(text, indices_to_modify=[idx]): a list, possibly
\* empty, of texts that differ from `text` in the word at idx, the new word
\* taken from the adapter's vocabulary; each carries the transformation that
\* made it.
get_transformations(text, idx) ==
    {[k \in DOMAIN ws |->
        [words |-> [text.words EXCEPT ![idx] = ws[k]],
         last_transformation |-> TRUE]] :
     ws \in ListsOver(vocab \ {text.words[idx]}, MaxCands)}

\* get_goal_results(texts): one result per text, in order.
get_goal_results(texts) == [DOMAIN texts -> GoalFunctionResult]

\* ------------------------------------------------------------- _perturb
\* `if index:` -- Python truth of the optional index.
IndexIsTruthy(index) == index # None /\ index[1] # 0

\* A variant that draws any position.
AnyPosition(num_replacements_per_word) == Positions

\* np.random.choice(num_words, 1, p=w_select_probs): the positions of
\* non-zero probability.
RandomChoice(num_replacements_per_word) ==
    {j \in Positions : num_replacements_per_word[j] > 0}

\* A variant that leaves the working budget as it is.
KeepBudget(num_replacements_per_word, idx) == num_replacements_per_word

\* `num_replacements_per_word[idx] = 0`
ZeroBudget(num_replacements_per_word, idx) ==
    [num_replacements_per_word EXCEPT ![idx] = 0]

\* `len(diff_scores) and diff_scores.max() > 0`
HasImprovement(diff_scores) ==
    Len(diff_scores) # 0 /\ SeqMax(diff_scores) > 0

\* A variant that takes the first candidate of the batch.
FirstCandidate(diff_scores) == 1

\* `diff_scores.argmax()`
IdxWithMaxScore(diff_scores) == ArgMax(diff_scores)

\* The hook _modify_population_member: a new member with the new text and
\* result, and the budget of word_idx used up.
ModifyPopulationMember(pop_member, new_text, new_result, word_idx) ==
    [attacked_text |-> new_text,
     result |-> new_result,
     num_replacements_per_word |->
        [pop_member.num_replacements_per_word EXCEPT ![word_idx] = 0]]

\* A variant that makes one pass more.
OnePassMore(iterations, non_zero_indices) == iterations <= non_zero_indices

\* Line 70: `while iterations < non_zero_indices`
LoopContinues(iterations, non_zero_indices) == iterations < non_zero_indices

\* The frame of a call _perturb(pop_member, original_result, index).
PerturbFrame(pop_member, index) ==
    [pop_member |-> pop_member, index |-> index,
     num_replacements_per_word |-> pop_member.num_replacements_per_word,
     non_zero_indices |-> 0, iterations |-> 0, ret |-> None]

PerturbHist(h) ==
    [h EXCEPT !.p_oracle = 0, !.p_trans = 0, !.p_draws = 0,
              !.p_strayed = FALSE, !.p_exhausted = {}, !.p_resampled = FALSE,
              !.p_drew_zero = FALSE,
              !.batch_max = {}, !.calls = @ + 1]

\* Lines 64-69: copy the budget vector, count its non-zero entries, return
\* the member at once when there is none.
PerturbBegin ==
    /\ pc = "perturb"
    /\ LET num_replacements_per_word ==
               pert.pop_member.num_replacements_per_word
           non_zero_indices == CountNonzero(num_replacements_per_word)
       IN IF non_zero_indices = 0
          THEN /\ pert' = [pert EXCEPT !.ret = pert.pop_member]
               /\ pc' = "perturb_ret"
          ELSE /\ pert' = [pert EXCEPT
                     !.num_replacements_per_word = num_replacements_per_word,
                     !.non_zero_indices = non_zero_indices,
                     !.iterations = 0]
               /\ pc' = "perturb_loop"
    /\ UNCHANGED <<instr, vocab, cfg, search_over, search, cross, hist>>

\* Lines 70-108: one pass of the while loop.
PerturbAttempt ==
    /\ pc = "perturb_loop"
    /\ LoopContinues(pert.iterations, pert.non_zero_indices)
    /\ IF ~IndexIsTruthy(pert.index) /\ NpSum(pert.num_replacements_per_word) = 0
       THEN \* 0/0 probabilities: np.random.choice raises ValueError
            /\ pc' = "raised"
            /\ UNCHANGED <<pert, hist, search_over>>
       ELSE
        \E idx \in (IF IndexIsTruthy(pert.index) THEN {pert.index[1]}
                    ELSE RandomChoice(pert.num_replacements_per_word)) :
        \E transformed_texts \in
               get_transformations(pert.pop_member.attacked_text, idx) :
          LET drawn == ~IndexIsTruthy(pert.index)
              h1 == [AdapterCalled(hist) EXCEPT
                        !.p_trans = @ + 1,
                        !.p_strayed =
                            @ \/ (pert.index # None /\ idx # pert.index[1]),
                        !.p_draws = @ + (IF drawn THEN 1 ELSE 0),
                        !.p_resampled =
                            @ \/ (drawn /\ idx \in hist.p_exhausted),
                        !.p_drew_zero =
                            @ \/ (drawn /\
                                  pert.num_replacements_per_word[idx] = 0),
                        !.resampled = @ \/ (drawn /\ idx \in hist.exhausted)]
          IN IF Len(transformed_texts) = 0
             THEN /\ pert' = [pert EXCEPT !.iterations = @ + 1]
                  /\ hist' = h1
                  /\ UNCHANGED <<pc, search_over>>
             ELSE
              \E new_results \in get_goal_results(transformed_texts),
                 so \in BOOLEAN :
                LET h2 == OracleReturned(
                              [AdapterCalled(h1) EXCEPT !.p_oracle = @ + 1], so)
                    diff_scores ==
                        [k \in DOMAIN new_results |->
                            new_results[k].score - pert.pop_member.result.score]
                    idx_with_max_score == IdxWithMaxScore(diff_scores)
                IN /\ search_over' = so
                   /\ IF so
                      THEN /\ pert' = [pert EXCEPT !.ret = pert.pop_member]
                           /\ pc' = "perturb_ret"
                           /\ hist' = h2
                      ELSE IF HasImprovement(diff_scores)
                      THEN /\ pert' = [pert EXCEPT !.ret =
                                  ModifyPopulationMember(
                                      pert.pop_member,
                                      transformed_texts[idx_with_max_score],
                                      new_results[idx_with_max_score],
                                      idx)]
                           /\ pc' = "perturb_ret"
                           /\ hist' = [h2 EXCEPT !.batch_max =
                                  {SeqMax([k \in DOMAIN new_results |->
                                             new_results[k].score])}]
                      ELSE /\ pert' = [pert EXCEPT
                                  !.num_replacements_per_word =
                                      ZeroBudget(@, idx),
                                  !.iterations = @ + 1]
                           /\ pc' = pc
                           /\ hist' = [h2 EXCEPT
                                  !.p_exhausted = @ \cup {idx},
                                  !.exhausted = @ \cup {idx}]
    /\ UNCHANGED <<instr, vocab, cfg, search, cross>>

\* Line 109: the loop condition fails, the member is returned as it is.
PerturbExhausted ==
    /\ pc = "perturb_loop"
    /\ ~LoopContinues(pert.iterations, pert.non_zero_indices)
    /\ pert' = [pert EXCEPT !.ret = pert.pop_member]
    /\ pc' = "perturb_ret"
    /\ UNCHANGED <<instr, vocab, cfg, search_over, search, cross, hist>>

\* A caller perturbs the member it got back once more.
PerturbAgain ==
    /\ pc = "perturb_ret"
    /\ search = None
    /\ hist.calls < MaxCalls
    /\ pert' = PerturbFrame(pert.ret, pert.index)
    /\ hist' = PerturbHist(hist)
    /\ search_over' = FALSE
    /\ pc' = "perturb"
    /\ UNCHANGED <<instr, vocab, cfg, search, cross>>

\* ------------------------------------------------------------ _crossover
\* The hook _crossover_operation: every position of the child takes its
\* word and its budget from one of the two parents (the random choice is
\* the set of positions taken from the second parent).  The text it builds
\* carries no transformation of its own.
CrossoverOperation(pop_member1, pop_member2) ==
    {[new_text |->
        [words |-> [j \in Positions |->
                      IF j \in from2
                      THEN pop_member2.attacked_text.words[j]
                      ELSE pop_member1.attacked_text.words[j]],
         last_transformation |-> FALSE],
      num_replacements_per_word |->
        [j \in Positions |->
           IF j \in from2
           THEN pop_member2.num_replacements_per_word[j]
           ELSE pop_member1.num_replacements_per_word[j]]] :
     from2 \in SUBSET Positions}

\* Lines 151-158: the child inherits "last_transformation" from the first
\* parent that has one.
InheritTransformation(new_text, x1_text, x2_text) ==
    [new_text EXCEPT !.last_transformation =
        @ \/ x1_text.last_transformation \/ x2_text.last_transformation]

\* Line 160-162: the loop is left without a constraint check.
SkipsCheck(post_crossover_check, new_text, x1_text, x2_text) ==
    \/ ~post_crossover_check
    \/ Text(new_text) = Text(x1_text)
    \/ Text(new_text) = Text(x2_text)

\* A variant that stops one try early.
MayTryOneLess(num_tries, max_crossover_retries) ==
    num_tries < max_crossover_retries

\* Line 141: `while num_tries < self.max_crossover_retries + 1`
MayTry(num_tries, max_crossover_retries) ==
    num_tries < max_crossover_retries + 1

\* A variant that always scores the child.
NeverFallsBack(post_crossover_check, passed_constraints) == FALSE

\* Line 182: the child is given up for one of the parents.
FallsBack(post_crossover_check, passed_constraints) ==
    post_crossover_check /\ ~passed_constraints

\* The frame of a call _crossover(pop_member1, pop_member2, original_text).
CrossoverFrame(pop_member1, pop_member2) ==
    [pop_member1 |-> pop_member1, pop_member2 |-> pop_member2,
     num_tries |-> 0, passed_constraints |-> FALSE,
     new_text |-> None, num_replacements_per_word |-> None, ret |-> None]

CrossoverHist(h) ==
    [h EXCEPT !.x_recomb = 0, !.x_oracle = 0, !.x_checks = 0,
              !.x_check_passed = FALSE, !.x_all_differ = TRUE]

\* Lines 141-180: one pass of the retry loop.
CrossoverAttempt ==
    /\ pc = "crossover"
    /\ MayTry(cross.num_tries, cfg.max_crossover_retries)
    /\ \E child \in CrossoverOperation(cross.pop_member1, cross.pop_member2) :
         LET x1_text == cross.pop_member1.attacked_text
             x2_text == cross.pop_member2.attacked_text
             new_text == InheritTransformation(child.new_text, x1_text, x2_text)
             same == \/ Text(new_text) = Text(x1_text)
                     \/ Text(new_text) = Text(x2_text)
             h1 == [hist EXCEPT !.x_recomb = @ + 1,
                                !.x_all_differ = @ /\ ~same]
             c1 == [cross EXCEPT
                      !.new_text = new_text,
                      !.num_replacements_per_word =
                          child.num_replacements_per_word]
         IN IF SkipsCheck(cfg.post_crossover_check, new_text, x1_text, x2_text)
            THEN /\ cross' = c1
                 /\ hist' = h1
                 /\ pc' = "crossover_end"
            ELSE IF new_text.last_transformation
            THEN \E passed_constraints \in BOOLEAN :
                   /\ hist' = [AdapterCalled(h1) EXCEPT
                                 !.x_checks = @ + 1,
                                 !.x_check_passed = @ \/ passed_constraints]
                   /\ IF passed_constraints
                      THEN /\ cross' = [c1 EXCEPT !.passed_constraints = TRUE]
                           /\ pc' = "crossover_end"
                      ELSE /\ cross' = [c1 EXCEPT !.passed_constraints = FALSE,
                                                  !.num_tries = @ + 1]
                           /\ pc' = pc
            ELSE /\ cross' = [c1 EXCEPT !.passed_constraints = TRUE]
                 /\ hist' = h1
                 /\ pc' = "crossover_end"
    /\ UNCHANGED <<instr, vocab, cfg, search_over, search, pert>>

\* Line 141: the retries are used up.
CrossoverExhausted ==
    /\ pc = "crossover"
    /\ ~MayTry(cross.num_tries, cfg.max_crossover_retries)
    /\ pc' = "crossover_end"
    /\ UNCHANGED <<instr, vocab, cfg, search_over, search, cross, pert, hist>>

\* Lines 182-193: a parent by coin flip, or the child scored by the oracle.
CrossoverFinish ==
    /\ pc = "crossover_end"
    /\ IF FallsBack(cfg.post_crossover_check, cross.passed_constraints)
       THEN /\ \E pop_mem \in {cross.pop_member1, cross.pop_member2} :
                 cross' = [cross EXCEPT !.ret = pop_mem]
            /\ UNCHANGED <<search_over, hist>>
       ELSE \E new_results \in get_goal_results(<<cross.new_text>>),
               so \in BOOLEAN :
              /\ search_over' = so
              /\ hist' = OracleReturned(
                    [AdapterCalled(hist) EXCEPT !.x_oracle = @ + 1], so)
              /\ cross' = [cross EXCEPT !.ret =
                    [attacked_text |-> cross.new_text,
                     result |-> new_results[1],
                     num_replacements_per_word |->
                        cross.num_replacements_per_word]]
    /\ pc' = "crossover_ret"
    /\ UNCHANGED <<instr, vocab, cfg, search, pert>>

\* ------------------------------------------------------- _perform_search
\* population[k] of the code is Nth(population, k).
Nth(s, k) == s[k + 1]

RECURSIVE SortedAscending(_)
\* A variant that sorts without `reverse=True`.
SortedAscending(population) ==
    IF Len(population) <= 1 THEN population
    ELSE LET n == Len(population)
             front == SortedAscending(SubSeq(population, 1, n - 1))
             m == population[n]
             k == Cardinality({a \in 1 .. (n - 1) :
                                 front[a].result.score <= m.result.score})
         IN SubSeq(front, 1, k) \o <<m>> \o SubSeq(front, k + 1, n - 1)

RECURSIVE SortedPopulation(_)
\* `sorted(population, key=lambda x: x.result.score, reverse=True)`: a stable
\* sort, members of equal score keep their order.
SortedPopulation(population) ==
    IF Len(population) <= 1 THEN population
    ELSE LET n == Len(population)
             front == SortedPopulation(SubSeq(population, 1, n - 1))
             m == population[n]
             k == Cardinality({a \in 1 .. (n - 1) :
                                 front[a].result.score >= m.result.score})
         IN SubSeq(front, 1, k) \o <<m>> \o SubSeq(front, k + 1, n - 1)

RECURSIVE Exp2(_)
Exp2(n) == IF n = 0 THEN 1 ELSE 2 * Exp2(n - 1)

\* `((-pop_scores) / self.temp).exp()` for temp = 1 / (InvTemp * ln 2), every
\* logit multiplied by 2^(InvTemp * MaxScore) to stay an integer; the factor
\* cancels in select_probs.
Logit(score) == Exp2(InvTemp * (MaxScore - score))

\* `logits / logits.sum()`: the probabilities as numerators over one
\* denominator.
SelectProbs(population) ==
    LET logits == [k \in DOMAIN population |-> Logit(population[k].result.score)]
    IN [num |-> logits, den |-> SumOver(logits, DOMAIN logits)]

\* np.random.choice(pop_size, size=pop_size - 1, p=select_probs) draws
\* pop_size - 1 independent indices.  The model draws the entry for child idx
\* when the child is built: parent1_idx and parent2_idx hold that entry.
\* These are the indices of non-zero probability.
ChooseParent(pop_size, select_probs) ==
    {k \in 0 .. (pop_size - 1) : select_probs.num[k + 1] > 0}

\* A variant that looks at the flag only.
OnlySearchOver(so, population) == so

\* A variant that looks at the top member only.
OnlySucceeded(so, population) ==
    Nth(population, 0).result.goal_status = SUCCEEDED

\* Lines 216-221.
IsTerminal(so, population) ==
    so \/ Nth(population, 0).result.goal_status = SUCCEEDED

\* A variant that gives up whatever the configuration says.
GivesUpAlways(top_score, current_score, give_up_if_no_improvement) ==
    ~(top_score > current_score)

\* Lines 223-226: no improvement on the best score so far, and the search is
\* configured to give up.
Stalled(top_score, current_score, give_up_if_no_improvement) ==
    ~(top_score > current_score) /\ give_up_if_no_improvement

\* A variant without the check after _crossover.
NeverBreak(so) == FALSE

\* Line 242: `if self._search_over: break` after _crossover.
BreakAfterCrossover(so) == so

\* Line 250: `if self._search_over: break` after _perturb.
BreakAfterPerturb(so) == so

\* A variant that puts the previous best member last.
EliteLast(population, children) == children \o <<population[1]>>

\* A variant that keeps the children only.
ChildrenOnly(population, children) == children

\* Line 253: `population = [population[0]] + children`
NextPopulation(population, children) == <<Nth(population, 0)>> \o children

\* Line 255: `return population[0].result`
ReturnedResult(population) == Nth(population, 0).result

\* The hook _initialize_population: pop_size members, each the original
\* text or one word swap away from it, scored by the oracle; at most one
\* member is not the original member.
OriginalMember ==
    [attacked_text |-> OriginalText,
     result |-> initial_result,
     num_replacements_per_word |-> [j \in Positions |-> MaxBudget]]

InitialMembers ==
    {OriginalMember} \cup
    {ModifyPopulationMember(
        OriginalMember,
        [words |-> [OriginalText.words EXCEPT ![j] = 1],
         last_transformation |-> TRUE],
        r, j) : j \in Positions, r \in GoalFunctionResult}

InitialPopulations(pop_size) ==
    {population \in [1 .. pop_size -> InitialMembers] :
        Cardinality({k \in 1 .. pop_size :
                       population[k] # OriginalMember}) <= 1}

IdleSearch ==
    [population |-> << >>, pop_size |-> 0, current_score |-> 0, i |-> 0,
     select_probs |-> None, parent1_idx |-> None, parent2_idx |-> None,
     idx |-> 0, children |-> << >>, ret |-> None]

\* What the history keeps between two calls of the operators.
SearchHist(h) ==
    [NoHist EXCEPT !.over_seen = h.over_seen, !.late_call = h.late_call,
                   !.init_ok = h.init_ok, !.exit = h.exit]

\* Lines 208-211.
InitializePopulation ==
    /\ pc = "init"
    /\ \E population \in InitialPopulations(cfg.pop_size), so \in BOOLEAN :
         /\ search' = [IdleSearch EXCEPT
                         !.population = population,
                         !.pop_size = Len(population),
                         !.current_score = initial_result.score]
         /\ search_over' = so
         /\ hist' = [hist EXCEPT
                       !.over_seen = so,
                       !.init_ok = \A k \in DOMAIN population :
                           population[k].result.score >= initial_result.score]
    /\ pc' = "loop"
    /\ UNCHANGED <<instr, vocab, cfg, cross, pert>>

\* Lines 213-241: the head of one pass of the for loop: sort, leave the
\* loop on a terminal condition or a stall, else draw the parents and call
\* _crossover for the first child.
GenerationStart ==
    /\ pc = "loop"
    /\ search.i < cfg.max_iters
    /\ LET population == SortedPopulation(search.population)
           top == Nth(population, 0).result
           s1 == [search EXCEPT !.population = population]
       IN IF IsTerminal(search_over, population)
          THEN /\ search' = [s1 EXCEPT !.ret = ReturnedResult(population)]
               /\ hist' = [hist EXCEPT !.exit =
                     IF search_over THEN "search_over" ELSE "succeeded"]
               /\ pc' = "done"
               /\ UNCHANGED cross
          ELSE IF Stalled(top.score, search.current_score,
                          cfg.give_up_if_no_improvement)
          THEN /\ search' = [s1 EXCEPT !.ret = ReturnedResult(population)]
               /\ hist' = [hist EXCEPT !.exit = "stalled"]
               /\ pc' = "done"
               /\ UNCHANGED cross
          ELSE IF Len(population) # search.pop_size
          THEN \* np.random.choice: 'a' and 'p' must have the same size
               /\ pc' = "raised"
               /\ UNCHANGED <<search, hist, cross>>
          ELSE
            LET select_probs == SelectProbs(population)
                current_score == IF top.score > search.current_score
                                 THEN top.score ELSE search.current_score
            IN \E parent1_idx \in ChooseParent(search.pop_size, select_probs),
                  parent2_idx \in ChooseParent(search.pop_size, select_probs) :
                 LET s2 == [s1 EXCEPT
                              !.current_score = current_score,
                              !.select_probs = select_probs,
                              !.parent1_idx = parent1_idx,
                              !.parent2_idx = parent2_idx,
                              !.idx = 0,
                              !.children = << >>]
                 IN IF search.pop_size - 1 > 0
                    THEN /\ search' = s2
                         /\ cross' = CrossoverFrame(
                               Nth(population, parent1_idx),
                               Nth(population, parent2_idx))
                         /\ hist' = CrossoverHist(hist)
                         /\ pc' = "crossover"
                    ELSE /\ search' = [s2 EXCEPT
                               !.population = NextPopulation(population, << >>),
                               !.i = @ + 1]
                         /\ pc' = "loop"
                         /\ UNCHANGED <<hist, cross>>
    /\ UNCHANGED <<instr, vocab, cfg, search_over, pert>>

\* Lines 242-245: back from _crossover: stop building children when the
\* search is over, else call _perturb on the child.
AfterCrossover ==
    /\ pc = "crossover_ret"
    /\ search # None
    /\ IF BreakAfterCrossover(search_over)
       THEN /\ search' = [search EXCEPT
                  !.population = NextPopulation(search.population,
                                                search.children),
                  !.i = @ + 1]
            /\ pert' = None
            /\ hist' = SearchHist(hist)
            /\ pc' = "loop"
       ELSE /\ pert' = PerturbFrame(cross.ret, None)
            /\ hist' = PerturbHist(SearchHist(hist))
            /\ pc' = "perturb"
            /\ UNCHANGED search
    /\ cross' = None
    /\ UNCHANGED <<instr, vocab, cfg, search_over>>

\* Lines 245-253: back from _perturb: keep the child, then the next pair
\* of parents, or the new population when the search is over or the P-1
\* children are built.
AfterPerturb ==
    /\ pc = "perturb_ret"
    /\ search # None
    /\ LET children == Append(search.children, pert.ret)
           idx == search.idx + 1
       IN IF BreakAfterPerturb(search_over) \/ ~(idx < search.pop_size - 1)
          THEN /\ search' = [search EXCEPT
                     !.children = children,
                     !.population = NextPopulation(search.population, children),
                     !.i = @ + 1]
               /\ cross' = None
               /\ hist' = SearchHist(hist)
               /\ pc' = "loop"
          ELSE \E parent1_idx \in
                      ChooseParent(search.pop_size, search.select_probs),
                  parent2_idx \in
                      ChooseParent(search.pop_size, search.select_probs) :
               /\ search' = [search EXCEPT
                     !.children = children, !.idx = idx,
                     !.parent1_idx = parent1_idx,
                     !.parent2_idx = parent2_idx]
               /\ cross' = CrossoverFrame(
                     Nth(search.population, parent1_idx),
                     Nth(search.population, parent2_idx))
               /\ hist' = CrossoverHist(SearchHist(hist))
               /\ pc' = "crossover"
    /\ pert' = None
    /\ UNCHANGED <<instr, vocab, cfg, search_over>>

\* Lines 213 and 255: max_iters passes are done.
LoopDone ==
    /\ pc = "loop"
    /\ ~(search.i < cfg.max_iters)
    /\ search' = [search EXCEPT !.ret = ReturnedResult(search.population)]
    /\ hist' = [hist EXCEPT !.exit = "max_iters"]
    /\ pc' = "done"
    /\ UNCHANGED <<instr, vocab, cfg, search_over, cross, pert>>

\* ------------------------------------------------- configurations, inputs
\* The configurations: the searches that build at most MaxChildren children.
Configs ==
    {c \in [pop_size : 2 .. MaxPopSize,
            max_iters : 1 .. MaxIters,
            give_up_if_no_improvement : BOOLEAN,
            post_crossover_check : BOOLEAN,
            max_crossover_retries : 0 .. MaxRetries] :
        (c.pop_size - 1) * c.max_iters <= MaxChildren}

DefaultConfig ==
    [pop_size |-> 2, max_iters |-> 1,
     give_up_if_no_improvement |-> FALSE, post_crossover_check |-> TRUE,
     max_crossover_retries |-> MaxRetries]

\* The members _perturb is called on by itself: the original text or a
\* text one swap away from it, in progress, with any budget vector.
PerturbInputs ==
    {m \in PopulationMember :
        /\ m.result = initial_result
        /\ m.attacked_text \in
              {OriginalText,
               [words |-> [OriginalText.words EXCEPT ![0] = 1],
                last_transformation |-> TRUE]}}

\* The parents _crossover is called on by itself: any texts over two words,
\* with or without a transformation, in progress; the first parent with a
\* full budget vector and the second with an empty one.
CrossoverInputs(budget) ==
    {m \in PopulationMember :
        /\ m.result = initial_result
        /\ \A j \in Positions :
              /\ m.attacked_text.words[j] <= 1
              /\ m.num_replacements_per_word[j] = budget}

\* _perturb called on its own, with or without an index.
InitPerturb ==
    /\ vocab = Words
    /\ cfg = DefaultConfig
    /\ pc = "perturb"
    /\ search_over = FALSE
    /\ search = None
    /\ cross = None
    /\ instr = None
    /\ \E pop_member \in PerturbInputs,
          index \in {None} \cup {<<k>> : k \in Positions} :
         /\ pert = PerturbFrame(pop_member, index)
         /\ hist = PerturbHist(NoHist)

NextPerturb ==
    \/ PerturbBegin
    \/ PerturbAttempt
    \/ PerturbExhausted
    \/ PerturbAgain

SpecPerturb == InitPerturb /\ [][NextPerturb]_vars

\* _crossover called on its own, on any two members.
InitCrossover ==
    /\ vocab = Words
    /\ cfg \in {c \in Configs : c.pop_size = 2 /\ c.max_iters = 1
                                /\ ~c.give_up_if_no_improvement}
    /\ pc = "crossover"
    /\ search_over = FALSE
    /\ search = None
    /\ pert = None
    /\ instr = None
    /\ \E pop_member1 \in CrossoverInputs(MaxBudget),
          pop_member2 \in CrossoverInputs(0) :
         cross = CrossoverFrame(pop_member1, pop_member2)
    /\ hist = CrossoverHist(NoHist)

NextCrossover ==
    \/ CrossoverAttempt
    \/ CrossoverExhausted
    \/ CrossoverFinish

SpecCrossover == InitCrossover /\ [][NextCrossover]_vars

\* _perform_search, with a transformation adapter of a smaller vocabulary.
Init ==
    /\ vocab = 0 .. SearchMaxWord
    /\ cfg \in {c \in Configs : c.max_crossover_retries = MaxRetries}
    /\ pc = "init"
    /\ search_over = FALSE
    /\ search = IdleSearch
    /\ cross = None
    /\ pert = None
    /\ instr = None
    /\ hist = NoHist

Next ==
    \/ InitializePopulation
    \/ GenerationStart
    \/ LoopDone
    \/ CrossoverAttempt
    \/ CrossoverExhausted
    \/ CrossoverFinish
    \/ AfterCrossover
    \/ PerturbBegin
    \/ PerturbAttempt
    \/ PerturbExhausted
    \/ AfterPerturb

Spec == Init /\ [][Next]_vars

\* --------------------------------------------- InstructionModification
\* constraints/pre_transformation/instruction_modification.py.  A string is
\* a sequence of characters.
DefinitionMarker == <<"D", "e", "f", "i", "n", "i", "t", "i", "o", "n", ":">>

NegativeExamplesMarker ==
    <<"N", "e", "g", "a", "t", "i", "v", "e", " ",
      "E", "x", "a", "m", "p", "l", "e", "s", ":">>

InputMarker == <<"I", "n", "p", "u", "t", ":">>

OutputMarker == <<"O", "u", "t", "p", "u", "t", ":">>

ExplanationMarker ==
    <<"E", "x", "p", "l", "a", "n", "a", "t", "i", "o", "n", ":">>

PositiveExamplesMarker ==
    <<"P", "o", "s", "i", "t", "i", "v", "e", " ",
      "E", "x", "a", "m", "p", "l", "e", "s", ":">>

\* The pieces the texts are made of: a one-letter word, a space and the six
\* markers.
InstrTokens ==
    {<<"a">>, <<" ">>, DefinitionMarker, NegativeExamplesMarker, InputMarker,
     OutputMarker, ExplanationMarker, PositiveExamplesMarker}

\* ''.join(parts)
RECURSIVE Join(_)
Join(parts) ==
    IF Len(parts) = 0 THEN << >> ELSE Head(parts) \o Join(Tail(parts))

\* current_text.text: any text of at most MaxTokens pieces.
InstrTexts ==
    {Join(ts) : ts \in UNION {[1 .. n -> InstrTokens] : n \in 0 .. MaxTokens}}

\* str.find: the lowest 0-based index at which sub occurs, -1 when it does
\* not occur.
Find(main_string, sub) ==
    LET hits == {i \in 0 .. (Len(main_string) - Len(sub)) :
                    SubSeq(main_string, i + 1, i + Len(sub)) = sub}
    IN IF hits = {} THEN -1
       ELSE CHOOSE i \in hits : \A j \in hits : i <= j

\* str.split(sep) for a non-empty sep.
RECURSIVE Split(_, _)
Split(s, sep) ==
    LET i == Find(s, sep)
    IN IF i = -1 THEN <<s>>
       ELSE <<SubSeq(s, 1, i)>>
            \o Split(SubSeq(s, i + Len(sep) + 1, Len(s)), sep)

\* A local of _get_word_index_range that has not been assigned.
Unbound == -1

\* Lines 21-28: the loop of _get_word_index_range from character `index` on.
RECURSIVE WordIndexLoop(_, _, _, _, _, _)
WordIndexLoop(main_string, index, word_index, start_index, start_char_index, end_char_index) ==
    IF index >= Len(main_string)
    THEN [start_index |-> start_index, end_index |-> Unbound]
    ELSE LET w == IF main_string[index + 1] = " "
                  THEN word_index + 1 ELSE word_index
             s == IF index = start_char_index THEN w ELSE start_index
         IN IF index = end_char_index
            THEN [start_index |-> s, end_index |-> w]
            ELSE WordIndexLoop(main_string, index + 1, w, s,
                               start_char_index, end_char_index)

\* Lines 17-29: _get_word_index_range; `return start_index, end_index` raises
\* UnboundLocalError when one of them was never assigned.
GetWordIndexRange(main_string, to_search_string) ==
    LET start_char_index == Find(main_string, to_search_string)
        end_char_index == start_char_index + Len(to_search_string)
        found == WordIndexLoop(main_string, 0, 0, Unbound,
                               start_char_index, end_char_index)
    IN [raised |-> found.start_index = Unbound \/ found.end_index = Unbound,
        start_index |-> found.start_index,
        end_index |-> found.end_index]

\* list(range(found_indexes[0], found_indexes[1]))
WordIndexRange(found_indexes) ==
    found_indexes.start_index .. (found_indexes.end_index - 1)

\* Lines 45-48: what the first try block adds; nothing when it raises.
DefinitionIndices(new_text_input) ==
    LET parts == Split(new_text_input, DefinitionMarker)
    IN IF Len(parts) < 2
       THEN {}      \* IndexError
       ELSE LET definiton_str == Split(parts[2], NegativeExamplesMarker)[1]
                found_indexes ==
                    GetWordIndexRange(new_text_input, definiton_str)
            IN IF found_indexes.raised THEN {}
               ELSE WordIndexRange(found_indexes)

\* Lines 53-56: what the second try block adds; nothing when it raises.
TaskInputIndices(new_text_input) ==
    LET parts == Split(new_text_input, InputMarker)
        task_input_str == Split(parts[Len(parts)], OutputMarker)[1]
        found_indexes == GetWordIndexRange(new_text_input, task_input_str)
    IN IF found_indexes.raised THEN {}
       ELSE WordIndexRange(found_indexes)

\* Lines 65-68: the for loop over the explanations; the indices added before
\* one of them raises stay in the set.
RECURSIVE ExplanationLoop(_, _)
ExplanationLoop(new_text_input, explanation_list) ==
    IF Len(explanation_list) = 0 THEN {}
    ELSE LET found_indexes ==
                 GetWordIndexRange(new_text_input, Head(explanation_list))
         IN IF found_indexes.raised THEN {}
            ELSE WordIndexRange(found_indexes)
                 \cup ExplanationLoop(new_text_input, Tail(explanation_list))

\* Lines 61-68: what the third try block adds.
ExplanationIndices(new_text_input) ==
    LET text_input_parts == Join(Split(new_text_input, PositiveExamplesMarker))
        explanations == Split(text_input_parts, ExplanationMarker)
        last_explanation ==
            Split(explanations[Len(explanations)], InputMarker)[1]
        explanation_list ==
            SubSeq(explanations, 2, Len(explanations) - 1)
            \o <<last_explanation>>
    IN ExplanationLoop(new_text_input, explanation_list)

\* The frame of a call _get_modifiable_indices(current_text) on a constraint
\* built with the three flags; from_* keep what each region added.
InstructionFrame(text, modify_definition, modify_task_input, modify_explanation) ==
    [text |-> text,
     modify_definition |-> modify_definition,
     modify_task_input |-> modify_task_input,
     modify_explanation |-> modify_explanation,
     modifiable_indices |-> {},
     from_definition |-> {}, from_task_input |-> {}, from_explanation |-> {}]

\* Lines 43-50.
DefinitionRegion ==
    /\ pc = "instr_definition"
    /\ LET added == IF instr.modify_definition
                    THEN DefinitionIndices(instr.text) ELSE {}
       IN instr' = [instr EXCEPT !.modifiable_indices = @ \cup added,
                                 !.from_definition = added]
    /\ pc' = "instr_task_input"
    /\ UNCHANGED <<vocab, cfg, search_over, search, cross, pert, hist>>

\* Lines 51-58.
TaskInputRegion ==
    /\ pc = "instr_task_input"
    /\ LET added == IF instr.modify_task_input
                    THEN TaskInputIndices(instr.text) ELSE {}
       IN instr' = [instr EXCEPT !.modifiable_indices = @ \cup added,
                                 !.from_task_input = added]
    /\ pc' = "instr_explanation"
    /\ UNCHANGED <<vocab, cfg, search_over, search, cross, pert, hist>>

\* Lines 59-71.
ExplanationRegion ==
    /\ pc = "instr_explanation"
    /\ LET added == IF instr.modify_explanation
                    THEN ExplanationIndices(instr.text) ELSE {}
       IN instr' = [instr EXCEPT !.modifiable_indices = @ \cup added,
                                 !.from_explanation = added]
    /\ pc' = "instr_ret"
    /\ UNCHANGED <<vocab, cfg, search_over, search, cross, pert, hist>>

\* _get_modifiable_indices called on any text, for any flags.
InitInstruction ==
    /\ vocab = Words
    /\ cfg = DefaultConfig
    /\ pc = "instr_definition"
    /\ search_over = FALSE
    /\ search = None
    /\ cross = None
    /\ pert = None
    /\ hist = NoHist
    /\ \E text \in InstrTexts, modify_definition \in BOOLEAN,
          modify_task_input \in BOOLEAN, modify_explanation \in BOOLEAN :
         instr = InstructionFrame(text, modify_definition, modify_task_input,
                                  modify_explanation)

NextInstruction ==
    \/ DefinitionRegion
    \/ TaskInputRegion
    \/ ExplanationRegion

SpecInstruction == InitInstruction /\ [][NextInstruction]_vars

\* ================================================================ claims
BuildingChildren ==
    pc \in {"crossover", "crossover_end", "crossover_ret",
            "perturb", "perturb_loop", "perturb_ret"}

PopulationScores ==
    {search.population[k].result.score : k \in DOMAIN search.population}

\* C1: whatever the reason _perform_search exits, no member of the
\* population held at the time of exit has a strictly higher score than the
\* result it returns.
C1_ReturnsBest ==
    pc = "done" => \A s \in PopulationScores : s <= search.ret.score

\* C2: when every member of the initial population scores at least the
\* unperturbed input's score, the score of the returned result is at least
\* initial_result.score.
C2_NonRegression ==
    (pc = "done" /\ hist.init_ok) => search.ret.score >= initial_result.score

\* A search that ran out of generations with a child below the initial score
\* in its last population.
C2_Witness ==
    /\ pc = "done"
    /\ hist.init_ok
    /\ hist.exit = "max_iters"
    /\ \E s \in PopulationScores : s < initial_result.score

\* C3: the step that ends a generation puts the top member of the sorted
\* generation, unchanged, at index 0 of the next one, also when the children
\* were not all built; and the sort of the next generation does not lower
\* the best score.
C3_Elitism ==
    [][/\ (BuildingChildren /\ pc' = "loop")
            => Nth(search'.population, 0) = Nth(search.population, 0)
       /\ (pc = "loop" /\ search.i > 0)
            => Nth(search'.population, 0).result.score
                  >= Nth(search.population, 0).result.score]_vars

\* A second generation whose sort has put a child above the previous best
\* member.
C3_Witness ==
    /\ BuildingChildren
    /\ search.i = 1
    /\ Nth(search.population, 0).result.score > initial_result.score
    /\ Nth(search.population, 0).attacked_text # OriginalText

\* C4: once an oracle call has returned search_over = True, no adapter is
\* called again before _perform_search returns.
C4_NoCallAfterSearchOver == ~hist.late_call

\* A search that the flag ended after it had started to build children.
C4_Witness ==
    /\ pc = "done"
    /\ hist.exit = "search_over"
    /\ search.i = 1
    /\ hist.over_seen

\* A parent's text carries a transformation.
CrossoverHasTransformation ==
    \/ cross.pop_member1.attacked_text.last_transformation
    \/ cross.pop_member2.attacked_text.last_transformation

\* The checker rejected every child it was asked about.
CheckerAlwaysRejected == cfg.post_crossover_check /\ ~hist.x_check_passed

ReturnedTextIsAParents ==
    \/ Text(cross.ret.attacked_text) = Text(cross.pop_member1.attacked_text)
    \/ Text(cross.ret.attacked_text) = Text(cross.pop_member2.attacked_text)

C6_NonWorsening ==
    pc = "perturb_ret"
        => \/ pert.ret = pert.pop_member
           \/ /\ pert.ret.result.score \in hist.batch_max
              /\ pert.ret.result.score > pert.pop_member.result.score
              /\ Text(pert.ret.attacked_text) # Text(pert.pop_member.attacked_text)

\* A call that committed a candidate after a failed attempt.
C6_Witness ==
    /\ pc = "perturb_ret"
    /\ pert.ret # pert.pop_member
    /\ hist.p_oracle = 2

C8_Original ==
    /\ (pc = "loop" /\ search.i > 0)
          => Len(search.population) >= search.pop_size - 1
    /\ pc = "done" => Len(search.population) = search.pop_size

\* C8 amended: the population has between 1 and P members; it has fewer
\* than P only after a construction step that the search-over flag ended
\* early, it is then not padded, and no generation is built from it.
C8_Amended ==
    pc \notin {"init", "raised"}
        => /\ search.pop_size = cfg.pop_size
           /\ Len(search.population) >= 1
           /\ Len(search.population) <= search.pop_size
           /\ Len(search.population) < search.pop_size
                 => search_over /\ pc \in {"loop", "done"}

\* A search of three members that returns with the previous best member
\* alone.
C8_Witness ==
    /\ pc = "done"
    /\ search.pop_size = 3
    /\ Len(search.population) = 1

\* C9: when _perturb is given an index, no position is drawn at random and
\* get_transformations is asked about that index only.
C9_FixedIndex ==
    (pert # None /\ pert.index # None)
        => hist.p_draws = 0 /\ ~hist.p_strayed

\* C10 as stated: a position whose budget _perturb has zeroed is not drawn
\* again, in this call or a later one on the member it returned.
C10_Original == ~hist.resampled

\* C10 amended: a position whose working budget a _perturb call has zeroed
\* is not drawn again later in that call.
C10_Amended == ~hist.p_resampled

\* A call that drew again after it had zeroed a position.
C10_Witness ==
    /\ pc = "perturb_loop"
    /\ ~IndexIsTruthy(pert.index)
    /\ hist.p_exhausted # {}
    /\ hist.p_draws >= 2

\* A pass of the _perturb loop that drew a position and got no candidate for
\* it: a transformation call without an oracle call.
EmptyPass ==
    /\ pc = "perturb_loop"
    /\ ~IndexIsTruthy(pert.index)
    /\ hist'.p_trans = hist.p_trans + 1
    /\ hist'.p_oracle = hist.p_oracle

\* C11: when get_transformations returns no candidate for the drawn
\* position, the attempt is counted, the working budget of that position is
\* set to zero and the loop goes on.
C11_EmptyExhausts ==
    [][EmptyPass
         => /\ pert'.iterations = pert.iterations + 1
            /\ pc' = "perturb_loop"
            /\ CountNonzero(pert'.num_replacements_per_word)
                 = CountNonzero(pert.num_replacements_per_word) - 1]_vars

\* The child the retry loop ended on has the text of one of the parents.
ChildIsAParents ==
    /\ cross.new_text # None
    /\ \/ Text(cross.new_text) = Text(cross.pop_member1.attacked_text)
       \/ Text(cross.new_text) = Text(cross.pop_member2.attacked_text)

\* C12: a recombined child whose text is that of a parent is accepted
\* without a constraint check, whatever post_crossover_check is: it is scored
\* by one oracle call and returned as a new member with the child's text and
\* budget vector.
C12_IdenticalChildAccepted ==
    (pc = "crossover_ret" /\ ChildIsAParents)
        => /\ hist.x_checks < hist.x_recomb
           /\ hist.x_oracle = 1
           /\ cross.ret.attacked_text = cross.new_text
           /\ cross.ret.num_replacements_per_word
                 = cross.num_replacements_per_word

\* The call took the fallback of line 182.
FellBack == cfg.post_crossover_check /\ ~cross.passed_constraints

\* C13: a _crossover call recombines at least once and at most
\* max_crossover_retries + 1 times, exactly once when max_crossover_retries is
\* 0 or post_crossover_check is false; it calls the oracle once when it
\* returns the child it built and not at all when it falls back to a parent.
C13_BoundedWork ==
    /\ cross # None
          => /\ hist.x_recomb <= cfg.max_crossover_retries + 1
             /\ hist.x_oracle <= 1
    /\ pc = "crossover_ret"
          => /\ hist.x_recomb >= 1
             /\ (cfg.max_crossover_retries = 0 \/ ~cfg.post_crossover_check)
                   => hist.x_recomb = 1
             /\ IF FellBack
                THEN /\ hist.x_oracle = 0
                     /\ cross.ret \in {cross.pop_member1, cross.pop_member2}
                ELSE /\ hist.x_oracle = 1
                     /\ cross.ret.attacked_text = cross.new_text

\* A call that used every retry and had its last child accepted by the
\* checker.
C13_Witness ==
    /\ pc = "crossover_ret"
    /\ cfg.max_crossover_retries >= 1
    /\ hist.x_recomb = cfg.max_crossover_retries + 1
    /\ hist.x_checks = hist.x_recomb
    /\ hist.x_oracle = 1

\* C14 as stated: the search exits stalled only if give_up_if_no_improvement
\* is set and a generation has been constructed whose best score is not
\* above the best score recorded before it.
C14_Original ==
    hist.exit = "stalled"
        => /\ cfg.give_up_if_no_improvement
           /\ search.i >= 1
           /\ search.ret.score <= search.current_score

\* C14 amended: the search exits stalled only if give_up_if_no_improvement
\* is set and, at the head of a pass that is neither over nor succeeded, the
\* top score of the sorted population is not above the best score recorded
\* so far, which is initial_result.score at the first pass.
C14_Amended ==
    hist.exit = "stalled"
        => /\ cfg.give_up_if_no_improvement
           /\ pc = "done"
           /\ search.i < cfg.max_iters
           /\ ~search_over
           /\ search.ret.goal_status # SUCCEEDED
           /\ search.ret = Nth(search.population, 0).result
           /\ search.ret.score <= search.current_score
           /\ search.current_score >= initial_result.score
           /\ search.i = 0 => search.current_score = initial_result.score

\* A search that improved in its first generation and stalled at the head
\* of the second.
C14_Witness ==
    /\ pc = "done"
    /\ hist.exit = "stalled"
    /\ search.i = 1
    /\ search.current_score > initial_result.score

\* The text holds the marker.
HasMarker(text, marker) == Find(text, marker) # -1

\* C15: a region whose opening marker is missing from the text adds no word
\* index to the result of _get_modifiable_indices, and the result is empty
\* when the three opening markers are missing.
C15_FailsClosed ==
    pc = "instr_ret"
        => /\ ~HasMarker(instr.text, DefinitionMarker)
                 => instr.from_definition = {}
           /\ ~HasMarker(instr.text, InputMarker)
                 => instr.from_task_input = {}
           /\ ~HasMarker(instr.text, ExplanationMarker)
                 => instr.from_explanation = {}
           /\ (/\ ~HasMarker(instr.text, DefinitionMarker)
               /\ ~HasMarker(instr.text, InputMarker)
               /\ ~HasMarker(instr.text, ExplanationMarker))
                 => instr.modifiable_indices = {}

\* The non-zero entries of the budget vector of the member _perturb was
\* called on.
NonZeroBudgetCount ==
    CountNonzero(pert.pop_member.num_replacements_per_word)

\* C16: a _perturb call makes at most NonZeroBudgetCount attempts and at
\* most that many oracle batch calls; when the count is 0 it returns its
\* input member without a call to an adapter.
C16_BoundedAttempts ==
    pert # None
        => /\ hist.p_trans <= NonZeroBudgetCount
           /\ hist.p_oracle <= hist.p_trans
           /\ pert.iterations <= NonZeroBudgetCount
           /\ (pc = "perturb_ret" /\ NonZeroBudgetCount = 0)
                 => /\ pert.ret = pert.pop_member
                    /\ hist.p_trans = 0
                    /\ hist.p_oracle = 0
                    /\ hist.p_draws = 0

\* A call that used every attempt it had, each with an oracle batch, and
\* returned its input.
C16_Witness ==
    /\ pc = "perturb_ret"
    /\ NonZeroBudgetCount = NumWords
    /\ hist.p_oracle = NumWords
    /\ pert.ret = pert.pop_member
    /\ ~search_over

\* _perform_search when every call returns: a step that can be taken is
\* taken.
SpecTerminating == Spec /\ WF_vars(Next)

\* The reason of the exit agrees with the state the search returned in.
ExitIsTerminal ==
    /\ hist.exit \in {"search_over", "succeeded", "stalled", "max_iters"}
    /\ hist.exit = "search_over" => search_over
    /\ hist.exit = "succeeded"
          => ~search_over /\ search.ret.goal_status = SUCCEEDED
    /\ hist.exit = "stalled" => cfg.give_up_if_no_improvement
    /\ hist.exit = "max_iters" <=> search.i = cfg.max_iters

\* C17: when every adapter call returns, _perform_search returns, after at
\* most max_iters generations, for one of the four reasons search-over,
\* succeeded, stalled, max iterations; and from a loop head whose sorted
\* population has a SUCCEEDED top member the next step is the return.
C17_Terminates ==
    /\ <>(pc = "done")
    /\ [](pc # "raised" /\ (pc # "init" => search.i <= cfg.max_iters))
    /\ [](pc = "done" => ExitIsTerminal)
    /\ [][(/\ pc = "loop"
           /\ Nth(SortedPopulation(search.population), 0).result.goal_status
                 = SUCCEEDED)
            => /\ pc' = "done"
               /\ search'.i = search.i]_vars

\* A search that returned because a child of its first generation
\* succeeded.
C17_Witness ==
    /\ pc = "done"
    /\ hist.exit = "succeeded"
    /\ search.i = 1
    /\ Len(search.population) = search.pop_size

\* C18: while the children of a generation are drawn and built, the
\* population has pop_size members, as many as the probability vector, and
\* the drawn indices are within it; a population that an early abort has
\* shortened is met only with the search-over flag set, and selection is
\* never run on it.
C18_SelectionOnFullPopulation ==
    /\ pc # "raised"
    /\ BuildingChildren
          => /\ Len(search.population) = search.pop_size
             /\ Len(search.select_probs.num) = search.pop_size
             /\ search.parent1_idx \in 0 .. (search.pop_size - 1)
             /\ search.parent2_idx \in 0 .. (search.pop_size - 1)
    /\ (pc = "loop" /\ Len(search.population) # search.pop_size)
          => search_over

\* A shortened population at the head of a pass, with passes left.
C18_Witness ==
    /\ pc = "loop"
    /\ search.i >= 1
    /\ search.i < cfg.max_iters
    /\ Len(search.population) < search.pop_size

\* C19: when _perturb draws its positions, at every draw the working budget
\* vector has a non-zero entry, the drawn position has a non-zero working
\* budget, and every zeroing lowers the number of non-zero entries by one.
C19_DrawWellDefined ==
    /\ pc # "raised"
    /\ ~hist.p_drew_zero
    /\ (pc = "perturb_loop" /\ ~IndexIsTruthy(pert.index))
          => /\ CountNonzero(pert.num_replacements_per_word)
                   = pert.non_zero_indices - Cardinality(hist.p_exhausted)
             /\ Cardinality(hist.p_exhausted) <= pert.iterations
             /\ pert.iterations < pert.non_zero_indices
                   => NpSum(pert.num_replacements_per_word) > 0

\* A call that has zeroed one of two positions and is about to draw again.
C19_Witness ==
    /\ pc = "perturb_loop"
    /\ ~IndexIsTruthy(pert.index)
    /\ pert.non_zero_indices = 2
    /\ pert.iterations = 1
    /\ Cardinality(hist.p_exhausted) = 1
    /\ CountNonzero(pert.num_replacements_per_word) = 1

====
